---- MODULE Spec2Model ----
(***************************************************************************)
(* Live-reload core of rorycl/firstgo: the FileChangeNotifier              *)
(* (src/fsnotify.go, NewFileChangeNotifier and its three goroutines) and   *)
(* the EventLoop (src/eventloop.go), and the development-mode controller   *)
(* App.ServeInDevelopment (src/app.go) that runs its commands on the loop. *)
(*                                                                         *)
(* File names and suffixes are sequences of one-character strings, so that *)
(* strings.ToLower and strings.HasSuffix are computed, not assumed.        *)
(* Time is discrete; one unit is half a flushDuration.  Task steps take no *)
(* time: the clock advances only when no task can take a step on its own.  *)
(***************************************************************************)
EXTENDS Integers, Sequences, FiniteSets, TLC

\* ------------------------------------------------------------------------
\* Bounds of the model
\* ------------------------------------------------------------------------

\* number of arbitrary raw fsnotify events the environment delivers in one run
\* (the writes of Scenario are always delivered to the end)
MaxEvents == 3

\* length of the list of labelled commands given to NewEventLoop
MaxCmds == 2

\* the counts of commands scheduled and messages received stop at this value
MaxMsgs == 3

\* ------------------------------------------------------------------------
\* Program constants
\* ------------------------------------------------------------------------

\* src/fsnotify.go:18, 50ms, in clock units of 25ms
flushDuration == 2

\* server instances one run of the controller builds
MaxServers == 2

\* the count of the notifiers whose Watch has not returned stops at this value
MaxNotifiers == 2

\* ------------------------------------------------------------------------
\* Strings
\* ------------------------------------------------------------------------

\* strings.ToLower on one byte, for the letters used by the file names
ToLowerChar(c) ==
    CASE c = "A" -> "a"
      [] c = "B" -> "b"
      [] c = "C" -> "c"
      [] c = "H" -> "h"
      [] c = "T" -> "t"
      [] c = "M" -> "m"
      [] c = "L" -> "l"
      [] c = "X" -> "x"
      [] OTHER -> c

RECURSIVE ToLower(_)
ToLower(s) ==
    IF s = <<>> THEN <<>> ELSE <<ToLowerChar(Head(s))>> \o ToLower(Tail(s))

HasSuffix(s, suffix) ==
    /\ Len(suffix) <= Len(s)
    /\ SubSeq(s, Len(s) - Len(suffix) + 1, Len(s)) = suffix

\* the names written by writeFiles of the tests
n_newfile_html == <<".", "n", "e", "w", "f", "i", "l", "e", ".", "h", "t", "m", "l">>
n_abc_html     == <<"a", "b", "c", ".", "h", "t", "m", "l">>
n_abc_HTML     == <<"a", "b", "c", ".", "H", "T", "M", "L">>
n_hidden_HTML  == <<".", "h", "i", "d", "d", "e", "n", ".", "H", "T", "M", "L">>
n_abctxt       == <<"a", "b", "c", "t", "x", "t">>
n_ABC_txt      == <<"A", "B", "C", ".", "t", "x", "t">>

s_dot_html == <<".", "h", "t", "m", "l">>
s_html     == <<"h", "t", "m", "l">>
s_txt      == <<"t", "x", "t">>

\* ------------------------------------------------------------------------
\* NewFileChangeNotifier: validation and registration of the descriptors
\* ------------------------------------------------------------------------

\* filepath.Clean on the directory paths used
CleanPath(p) ==
    CASE p = "A/"  -> "A"
      [] p = "./B" -> "B"
      [] OTHER     -> p

\* os.Stat on a cleaned path: the directories A and B exist, F is a file
StatPath(p) ==
    CASE p \in {"A", "B"} -> "dir"
      [] p = "F"          -> "file"
      [] OTHER            -> "missing"

\* "prepending "." if necessary"
NormalizeSuffix(ix) ==
    IF Len(ix) > 0 /\ ix[1] # "." THEN <<".">> \o ix ELSE ix

RECURSIVE NormalizeSuffixes(_)
NormalizeSuffixes(suffixes) ==
    IF suffixes = <<>> THEN <<>>
    ELSE <<NormalizeSuffix(Head(suffixes))>> \o NormalizeSuffixes(Tail(suffixes))

EmptyMap == [d \in {} |-> <<>>]

\* the loop over fcn.dirFiles without the test for a directory already
\* registered: a later descriptor replaces an earlier one
RECURSIVE RegisterDirsNoDuplicateTest(_, _, _)
RegisterDirsNoDuplicateTest(descs, i, m) ==
    IF i > Len(descs) THEN [err |-> "none", map |-> m]
    ELSE LET dir == CleanPath(descs[i].Dir) IN
         IF StatPath(dir) = "missing" THEN [err |-> "not found", map |-> EmptyMap]
         ELSE IF StatPath(dir) # "dir" THEN [err |-> "not a directory", map |-> EmptyMap]
         ELSE RegisterDirsNoDuplicateTest(descs, i + 1,
                  [d \in DOMAIN m \cup {dir} |->
                      IF d = dir THEN NormalizeSuffixes(descs[i].FileSuffixes)
                      ELSE m[d]])

\* the loop over fcn.dirFiles, from descriptor i on, with the map built so far
RECURSIVE RegisterDirs(_, _, _)
RegisterDirs(descs, i, m) ==
    IF i > Len(descs) THEN [err |-> "none", map |-> m]
    ELSE LET dir == CleanPath(descs[i].Dir) IN
         IF StatPath(dir) = "missing" THEN [err |-> "not found", map |-> EmptyMap]
         ELSE IF StatPath(dir) # "dir" THEN [err |-> "not a directory", map |-> EmptyMap]
         ELSE IF dir \in DOMAIN m THEN [err |-> "already registered", map |-> EmptyMap]
         ELSE RegisterDirs(descs, i + 1,
                  [d \in DOMAIN m \cup {dir} |->
                      IF d = dir THEN NormalizeSuffixes(descs[i].FileSuffixes)
                      ELSE m[d]])

NewFileChangeNotifier(descs) ==
    IF Len(descs) < 1 THEN [err |-> "no descriptors", map |-> EmptyMap]
    ELSE RegisterDirs(descs, 1, EmptyMap)

Descriptor(dir, suffixes) == [Dir |-> dir, FileSuffixes |-> suffixes]

\* the descriptors of the tests
TestDescriptors ==
    << Descriptor("A", <<s_dot_html>>), Descriptor("B", <<s_txt>>) >>

\* the descriptor lists NewFileChangeNotifier is called with: the one of the
\* tests, one whose first directory has two suffixes that normalise to the same
\* string, one whose first directory has the empty string as its suffix (what
\* filepath.Ext returns for a file name without extension), and lists that are
\* empty, name a missing directory (Z), name a file
\* (F), or name a directory twice (under the same or another spelling)
DescriptorChoices ==
    { TestDescriptors,
      << Descriptor("A/", <<s_dot_html, s_html>>), Descriptor("./B", <<s_txt>>) >>,
      << Descriptor("A", << <<>> >>), Descriptor("B", <<s_txt>>) >>,
      << >>,
      << Descriptor("A", <<s_dot_html>>), Descriptor("Z", <<s_txt>>) >>,
      << Descriptor("F", <<s_txt>>) >>,
      << Descriptor("A", <<s_dot_html>>), Descriptor("A", <<s_txt>>) >>,
      << Descriptor("A", <<s_dot_html>>), Descriptor("B", <<s_txt>>),
         Descriptor("A/", <<s_html>>) >>,
      << Descriptor("./B", <<s_txt>>), Descriptor("B", <<s_txt>>) >> }

\* ------------------------------------------------------------------------
\* Raw events of the notification primitive
\* ------------------------------------------------------------------------

RawEvent(op, dir, base) == [op |-> op, dir |-> dir, base |-> base]

\* the writes of writeFiles, in order (os.Create then Fprint: one write event)
Scenario ==
    << RawEvent({"Write"}, "A", n_newfile_html),
       RawEvent({"Write"}, "A", n_abc_html),
       RawEvent({"Write"}, "A", n_abc_HTML),
       RawEvent({"Write"}, "A", n_hidden_HTML),
       RawEvent({"Write"}, "B", n_abctxt),
       RawEvent({"Write"}, "B", n_ABC_txt) >>

RawEvents ==
    { Scenario[i] : i \in 1..Len(Scenario) }
    \cup { RawEvent({"Create"}, "A", n_abc_html),
           RawEvent({"Write", "Chmod"}, "B", n_ABC_txt),
           RawEvent({"Write"}, "Z", n_abc_html) }

\* ------------------------------------------------------------------------
\* State of one FileChangeNotifier
\* ------------------------------------------------------------------------

VARIABLES
    descriptors,       \* the []DirFilesDescriptor given to NewFileChangeNotifier
    fcnNewErr,         \* the error NewFileChangeNotifier returned ("none" if nil)
    dirDescriptorMap,  \* fcn.dirDescriptorMap: cleaned dir -> normalised suffixes
    ctxDone,           \* the root cancellation signal has fired
    gctxDone,          \* the errgroup's derived context is done
    gerr,              \* the errgroup's first non-nil error ("none" if none yet)
    rpc,               \* event reader: "select", "send" (eventChan <- true), "done"
                       \* ("none": no notifier was constructed; so for tpc)
    cur,               \* the event whose suffixes the reader is looping over
    ri,                \* index of the suffix whose send is pending
    tpc,               \* debounce ticker: "select", "emit" (fcn.refresh <- true), "done"
    flush,             \* the ticker's flush flag
    tickIn,            \* clock units until the ticker's next tick is due
    tickAvail,         \* a tick is due and not yet received from timer.C
    waitDone,          \* g.Wait() has returned in the third goroutine
    fcnErr,            \* fcn.err
    eventChanClosed,   \* eventChan is closed
    watcherClosed,     \* fcn.watcher is closed
    refreshClosed,     \* fcn.refresh is closed
    \* history of the run
    nRaw,              \* raw events received by the reader
    nQual,             \* raw events received that qualify by the reference predicate
    nRefQual,          \* raw events received that qualify when every configured suffix
                       \* is read with a leading "."
    unregistered,      \* the reader received a write, not of a hidden file, in a
                       \* directory that has no entry in dirDescriptorMap
    nHanded,           \* raw events for which the reader sent on eventChan
    nSignals,          \* sends on eventChan the ticker has received
    pendingN,          \* qualifying signals received by the ticker since the last emission
    emitted,           \* coalesced signals the ticker decided to emit
    delivered,         \* coalesced signals received by the consumer
    lastEmit,          \* what the clocks and pendingN were at the last emission
    sinceEvent,        \* clock: since the ticker last received from eventChan (capped)
    sinceEmit,         \* clock: since the last emission (capped)
    sinceWrite,        \* clock: since the last raw write event (capped)
    sepMore,           \* consecutive raw writes were more than flushDuration apart
    sepAtLeast,        \* consecutive raw writes were at least flushDuration apart
    consumerLate,      \* the clock advanced while the ticker was blocked emitting
    scen,              \* the raw events so far are the first scen writes of Scenario (-1: not)
    cancelAge,         \* clock: since the root cancellation fired (capped)
    readerErr          \* the error the event reader returned ("none": not returned),
                       \* whether it returned before the debounce goroutine, and
                       \* the emissions decided until then

nvars == << descriptors, fcnNewErr, dirDescriptorMap, ctxDone, gctxDone, gerr, rpc, cur, ri, tpc, flush,
            tickIn, tickAvail, waitDone, fcnErr, eventChanClosed, watcherClosed,
            refreshClosed, nRaw, nQual, nRefQual, unregistered, nHanded, nSignals, pendingN, emitted, delivered,
            lastEmit, sinceEvent, sinceEmit, sinceWrite, sepMore, sepAtLeast,
            consumerLate, scen, cancelAge, readerErr >>

hist == << nRaw, nQual, nRefQual, unregistered, nHanded, nSignals, pendingN, emitted, delivered, lastEmit,
           sinceEvent, sinceEmit, sinceWrite, sepMore, sepAtLeast, consumerLate,
           scen, cancelAge >>

\* ------------------------------------------------------------------------
\* State of one EventLoop
\* ------------------------------------------------------------------------

VARIABLES
    cmds,              \* the []LabelledCmd given to NewEventLoop
    startCmd,          \* e.startCmd
    defaultCmd,        \* e.defaultCmd
    cmdMap,            \* e.cmdMap
    newErr,            \* the error of NewEventLoop ("none": a loop was returned)
    msgChanClosed,     \* e.msgChan is closed
    runCtxDone,        \* the context given to Run is done
    lpc,               \* Run: "start", "recv" (range e.msgChan), "returned"; "none": no loop
    tasks,             \* the goroutines of doCmd, each [cmd, pc, msg]; pc "cmd", "wait"
                       \* (fileWaitForUpdateCmd blocked in its select) or "select"
    aborted,           \* the panic that ended the process ("none" if none)
    stoppedAt,         \* where Run was when Stop was called from outside ("never" if not)
    \* history of the run
    nStart,            \* times Run scheduled the start command
    nSched,            \* commands scheduled by doCmd (stops at MaxMsgs + 1)
    nRecv,             \* messages received by Run (stops at MaxMsgs)
    firstSched,        \* the first command scheduled
    lastSched,         \* the last command scheduled
    prevSched,         \* the command scheduled before the last one
    lastRecv,          \* the last message received
    lastSender,        \* the command whose goroutine sent the last message received
    updLast,           \* the last call of Update from outside: [msg, cmd]
    updSame            \* every call of Update repeated for a message returned the same

lvars == << cmds, startCmd, defaultCmd, cmdMap, newErr, msgChanClosed, runCtxDone,
            lpc, tasks, aborted, stoppedAt, nStart, nSched, nRecv, firstSched,
            lastSched, prevSched, lastRecv, lastSender, updLast, updSame >>

lhist == << nStart, nSched, nRecv, firstSched, lastSched, prevSched, lastRecv,
            lastSender >>

\* ------------------------------------------------------------------------
\* State of one call of App.ServeInDevelopment
\* ------------------------------------------------------------------------

VARIABLES
    configFile,        \* what reading and parsing configFile gives now: "unreadable",
                       \* "invalid", or the valid configuration "v1" or "v2"
    watchDirsExist,    \* the directories the wait command watches exist now
    cfg,               \* the cached configuration ("nil", "v1", "v2")
    templateDir,       \* "default" (assets/templates) or the configuration it comes from
    srv,               \* the server handle: 0 for nil, else the index in servers
    servers,           \* the instances built by newServer: "built", "serving", "closed",
                       \* "failed"
    servePending,      \* serve goroutines started that have not yet read srv
    devReturn,         \* ServeInDevelopment: "none" (not called), "running", "nil"
    liveNotifiers,     \* notifiers built by fileWaitForUpdateCmd whose Watch has not
                       \* returned (the count stops at MaxNotifiers)
    \* history of the run
    lastLoad           \* the last run of loadConfigCmd: what it read and returned

avars == << configFile, watchDirsExist, cfg, templateDir, srv, servers, servePending,
            devReturn, lastLoad, liveNotifiers >>

vars == << descriptors, fcnNewErr, dirDescriptorMap, ctxDone, gctxDone, gerr, rpc, cur, ri, tpc, flush,
           tickIn, tickAvail, waitDone, fcnErr, eventChanClosed, watcherClosed,
           refreshClosed, nRaw, nQual, nRefQual, unregistered, nHanded, nSignals, pendingN, emitted, delivered,
           lastEmit, sinceEvent, sinceEmit, sinceWrite, sepMore, sepAtLeast,
           consumerLate, scen, cancelAge, readerErr,
           cmds, startCmd, defaultCmd, cmdMap, newErr, msgChanClosed, runCtxDone,
           lpc, tasks, aborted, stoppedAt, nStart, nSched, nRecv, firstSched,
           lastSched, prevSched, lastRecv, lastSender, updLast, updSame,
           configFile, watchDirsExist, cfg, templateDir, srv, servers, servePending,
           devReturn, lastLoad, liveNotifiers >>

NoEvent == RawEvent({}, "", <<>>)

Min(a, b) == IF a < b THEN a ELSE b

NotifierInitWith(descs) ==
    /\ descriptors = descs
    /\ fcnNewErr = NewFileChangeNotifier(descs).err
    /\ dirDescriptorMap = NewFileChangeNotifier(descs).map
    /\ ctxDone = FALSE
    /\ gctxDone = FALSE
    /\ gerr = "none"
    /\ rpc = IF NewFileChangeNotifier(descs).err = "none" THEN "select" ELSE "none"
    /\ cur = NoEvent
    /\ ri = 0
    /\ tpc = IF NewFileChangeNotifier(descs).err = "none" THEN "select" ELSE "none"
    /\ flush = FALSE
    /\ tickIn = flushDuration
    /\ tickAvail = FALSE
    /\ waitDone = FALSE
    /\ fcnErr = "none"
    /\ eventChanClosed = FALSE
    /\ watcherClosed = FALSE
    /\ refreshClosed = FALSE
    /\ nRaw = 0
    /\ nQual = 0
    /\ nRefQual = 0
    /\ unregistered = FALSE
    /\ nHanded = 0
    /\ nSignals = 0
    /\ pendingN = 0
    /\ emitted = 0
    /\ delivered = 0
    /\ lastEmit = [quiet |-> flushDuration, gap |-> flushDuration, covered |-> 0]
    /\ sinceEvent = flushDuration
    /\ sinceEmit = flushDuration
    /\ sinceWrite = flushDuration + 1
    /\ sepMore = TRUE
    /\ sepAtLeast = TRUE
    /\ consumerLate = FALSE
    /\ scen = 0
    /\ cancelAge = 0
    /\ readerErr = [err |-> "none", first |-> FALSE, emitted |-> 0]

\* ------------------------------------------------------------------------
\* The event reader goroutine
\* ------------------------------------------------------------------------

\* the reader without the test of the event kind
HasWriteAlways(e) == TRUE

\* e.Has(fsnotify.Write)
HasWrite(e) == "Write" \in e.op

\* the reader without the test for dot files
IsDotFileNever(basename) == FALSE

\* "ignore dot files"
IsDotFile(basename) == Len(basename) > 0 /\ basename[1] = "."

\* the test of the suffix loop
SuffixMatches(basename, ix) == HasSuffix(ToLower(basename), ToLower(ix))

\* the suffix loop from index i on: the index of the next suffix for which the
\* reader sends on eventChan, 0 when the loop ends
RECURSIVE NextSend(_, _, _)
NextSend(basename, suffixes, i) ==
    IF i > Len(suffixes) THEN 0
    ELSE IF SuffixMatches(basename, suffixes[i]) THEN i
    ELSE NextSend(basename, suffixes, i + 1)

\* an errgroup that keeps the last error returned instead of the first
GroupReturnLastError(err) ==
    /\ gerr' = err
    /\ gctxDone' = TRUE

\* a goroutine of the errgroup returns err: the first non-nil error is kept and
\* cancels the derived context
GroupReturn(err) ==
    /\ gerr' = IF gerr = "none" THEN err ELSE gerr
    /\ gctxDone' = TRUE

\* the reference predicate of a qualifying write, used by the history only
QualifiesRef(e) ==
    /\ "Write" \in e.op
    /\ e.base # <<>> => e.base[1] # "."
    /\ e.dir \in DOMAIN dirDescriptorMap
    /\ \E k \in 1..Len(dirDescriptorMap[e.dir]) :
          LET suf == ToLower(dirDescriptorMap[e.dir][k])
              b   == ToLower(e.base)
          IN  /\ Len(suf) <= Len(b)
              /\ \A j \in 1..Len(suf) : b[Len(b) - Len(suf) + j] = suf[j]

\* a configured suffix read as if it had a leading "."
DottedSuffix(ix) == IF ix # <<>> /\ Head(ix) = "." THEN ix ELSE <<".">> \o ix

\* the reference predicate over the descriptors as they were supplied: a write,
\* not of a hidden file, whose lower-cased base name ends with the lower-cased
\* dotted form of a suffix configured for its directory
QualifiesWithDottedSuffixes(e) ==
    /\ "Write" \in e.op
    /\ ~(e.base # <<>> /\ Head(e.base) = ".")
    /\ \E i \in 1..Len(descriptors) :
          /\ CleanPath(descriptors[i].Dir) = e.dir
          /\ \E k \in 1..Len(descriptors[i].FileSuffixes) :
                HasSuffix(ToLower(e.base),
                          ToLower(DottedSuffix(descriptors[i].FileSuffixes[k])))

ReaderHistory(e) ==
    /\ nRaw' = nRaw + 1
    /\ nQual' = IF QualifiesRef(e) THEN nQual + 1 ELSE nQual
    /\ nRefQual' = IF QualifiesWithDottedSuffixes(e) THEN nRefQual + 1 ELSE nRefQual
    /\ unregistered' = (unregistered \/ (/\ "Write" \in e.op
                                         /\ ~(e.base # <<>> /\ Head(e.base) = ".")
                                         /\ e.dir \notin DOMAIN dirDescriptorMap))
    /\ scen' = IF scen >= 0 /\ scen < Len(Scenario) /\ e = Scenario[scen + 1]
               THEN scen + 1 ELSE -1
    /\ IF "Write" \in e.op
       THEN /\ sinceWrite' = 0
            /\ sepMore' = (sepMore /\ sinceWrite > flushDuration)
            /\ sepAtLeast' = (sepAtLeast /\ sinceWrite >= flushDuration)
       ELSE UNCHANGED << sinceWrite, sepMore, sepAtLeast >>

\* case <-ctx.Done(): return ctx.Err()
ReaderCtxDone ==
    /\ rpc = "select"
    /\ gctxDone
    /\ rpc' = "done"
    /\ readerErr' = [err |-> "Canceled", first |-> tpc # "done", emitted |-> emitted]
    /\ GroupReturn("Canceled")
    /\ UNCHANGED << lvars, avars >>
    /\ UNCHANGED << descriptors, fcnNewErr, dirDescriptorMap, ctxDone, cur, ri, tpc, flush, tickIn, tickAvail,
                    waitDone, fcnErr, eventChanClosed, watcherClosed, refreshClosed,
                    hist >>

\* case err, ok := <-fcn.watcher.Errors, and the !ok branch of watcher.Events
ReaderFatal ==
    /\ rpc = "select"
    /\ ~watcherClosed
    /\ \E err \in {"ErrorsClosed", "NotifyError", "EventsClosed"} :
          /\ GroupReturn(err)
          /\ readerErr' = [err |-> err, first |-> tpc # "done", emitted |-> emitted]
    /\ rpc' = "done"
    /\ UNCHANGED << lvars, avars >>
    /\ UNCHANGED << descriptors, fcnNewErr, dirDescriptorMap, ctxDone, cur, ri, tpc, flush, tickIn, tickAvail,
                    waitDone, fcnErr, eventChanClosed, watcherClosed, refreshClosed,
                    hist >>

\* the reader logging the missing suffix list and going on with the next event
NoMatcherLogged ==
    UNCHANGED << rpc, cur, ri, gerr, gctxDone, nHanded, readerErr >>

\* suffixes, ok := fcn.dirDescriptorMap[dir]; if !ok { return fmt.Errorf(...) }
NoMatcherReturn ==
    /\ rpc' = "done"
    /\ GroupReturn("NoMatcher")
    /\ readerErr' = [err |-> "NoMatcher", first |-> tpc # "done", emitted |-> emitted]
    /\ UNCHANGED << cur, ri, nHanded >>

\* case e, ok := <-fcn.watcher.Events, up to the first send on eventChan
ReaderEvent ==
    /\ rpc = "select"
    /\ ~watcherClosed
    /\ \E e \in RawEvents :
          /\ nRaw < MaxEvents \/ (scen >= 0 /\ scen < Len(Scenario) /\ e = Scenario[scen + 1])
          /\ ReaderHistory(e)
          /\ IF ~HasWrite(e) \/ IsDotFile(e.base)
             THEN UNCHANGED << rpc, cur, ri, gerr, gctxDone, nHanded, readerErr >>
             ELSE IF e.dir \notin DOMAIN dirDescriptorMap
             THEN NoMatcherReturn
             ELSE LET k == NextSend(e.base, dirDescriptorMap[e.dir], 1) IN
                  IF k = 0
                  THEN UNCHANGED << rpc, cur, ri, gerr, gctxDone, nHanded, readerErr >>
                  ELSE /\ rpc' = "send"
                       /\ cur' = e
                       /\ ri' = k
                       /\ nHanded' = nHanded + 1
                       /\ UNCHANGED << gerr, gctxDone, readerErr >>
    /\ UNCHANGED << lvars, avars >>
    /\ UNCHANGED << descriptors, fcnNewErr, dirDescriptorMap, ctxDone, tpc, flush, tickIn, tickAvail, waitDone,
                    fcnErr, eventChanClosed, watcherClosed, refreshClosed, nSignals, pendingN,
                    emitted, delivered, lastEmit, sinceEvent, sinceEmit, consumerLate,
                    cancelAge >>

\* ------------------------------------------------------------------------
\* The debounce goroutine
\* ------------------------------------------------------------------------

\* the ticker without timer.Reset
TimerResetMissing == UNCHANGED << tickIn, tickAvail >>

\* timer.Reset(flushDuration): the next tick is one period away, no tick is pending
TimerReset ==
    /\ tickIn' = flushDuration
    /\ tickAvail' = FALSE

\* the reader's eventChan <- true meets the ticker's case <-eventChan
EventChanSend ==
    /\ rpc = "send"
    /\ tpc = "select"
    /\ ~eventChanClosed
    /\ flush' = TRUE
    /\ TimerReset
    /\ LET k == NextSend(cur.base, dirDescriptorMap[cur.dir], ri + 1) IN
          IF k = 0
          THEN /\ rpc' = "select"
               /\ cur' = NoEvent
               /\ ri' = 0
          ELSE /\ ri' = k
               /\ UNCHANGED << rpc, cur >>
    /\ pendingN' = pendingN + 1
    /\ nSignals' = nSignals + 1
    /\ sinceEvent' = 0
    /\ UNCHANGED << lvars, avars >>
    /\ UNCHANGED << readerErr, descriptors, fcnNewErr, dirDescriptorMap, ctxDone, gctxDone, gerr, tpc, waitDone, fcnErr,
                    eventChanClosed, watcherClosed, refreshClosed, nRaw, nQual, nRefQual, unregistered, nHanded,
                    emitted, delivered, lastEmit, sinceEmit, sinceWrite, sepMore,
                    sepAtLeast, consumerLate, scen, cancelAge >>

\* the ticker emitting at every tick, whatever the flush flag
TickerOnTickAlways ==
    /\ tpc = "select"
    /\ tickAvail
    /\ tickAvail' = FALSE
    /\ tpc' = "emit"
    /\ emitted' = emitted + 1
    /\ lastEmit' = [quiet |-> sinceEvent, gap |-> sinceEmit, covered |-> pendingN]
    /\ pendingN' = 0
    /\ sinceEmit' = 0
    /\ UNCHANGED << lvars, avars >>
    /\ UNCHANGED << readerErr, descriptors, fcnNewErr, dirDescriptorMap, ctxDone, gctxDone, gerr, rpc, cur, ri, flush,
                    tickIn, waitDone, fcnErr, eventChanClosed, watcherClosed,
                    refreshClosed, nRaw, nQual, nRefQual, unregistered, nHanded, nSignals, delivered, sinceEvent,
                    sinceWrite, sepMore, sepAtLeast, consumerLate, scen, cancelAge >>

\* the ticker clearing the flush flag at a tick without sending on fcn.refresh
TickerOnTickDrops ==
    /\ tpc = "select"
    /\ tickAvail
    /\ tickAvail' = FALSE
    /\ flush' = FALSE
    /\ UNCHANGED << lvars, avars >>
    /\ UNCHANGED << readerErr, descriptors, fcnNewErr, dirDescriptorMap, ctxDone, gctxDone, gerr, rpc, cur, ri, tpc,
                    tickIn, waitDone, fcnErr, eventChanClosed, watcherClosed,
                    refreshClosed, hist >>

\* case <-timer.C: if flush, block on fcn.refresh <- true
TickerOnTick ==
    /\ tpc = "select"
    /\ tickAvail
    /\ tickAvail' = FALSE
    /\ IF flush
       THEN /\ tpc' = "emit"
            /\ emitted' = emitted + 1
            /\ lastEmit' = [quiet |-> sinceEvent, gap |-> sinceEmit, covered |-> pendingN]
            /\ pendingN' = 0
            /\ sinceEmit' = 0
       ELSE UNCHANGED << tpc, emitted, lastEmit, pendingN, sinceEmit >>
    /\ UNCHANGED << lvars, avars >>
    /\ UNCHANGED << readerErr, descriptors, fcnNewErr, dirDescriptorMap, ctxDone, gctxDone, gerr, rpc, cur, ri, flush,
                    tickIn, waitDone, fcnErr, eventChanClosed, watcherClosed,
                    refreshClosed, nRaw, nQual, nRefQual, unregistered, nHanded, nSignals, delivered, sinceEvent,
                    sinceWrite, sepMore, sepAtLeast, consumerLate, scen, cancelAge >>

\* the consumer's range over fcn.refresh receives; the ticker goes on: flush = false
ConsumerRecv ==
    /\ tpc = "emit"
    /\ ~refreshClosed
    /\ tpc' = "select"
    /\ flush' = FALSE
    /\ delivered' = delivered + 1
    /\ UNCHANGED << lvars, avars >>
    /\ UNCHANGED << readerErr, descriptors, fcnNewErr, dirDescriptorMap, ctxDone, gctxDone, gerr, rpc, cur, ri, tickIn,
                    tickAvail, waitDone, fcnErr, eventChanClosed, watcherClosed,
                    refreshClosed, nRaw, nQual, nRefQual, unregistered, nHanded, nSignals, pendingN, emitted, lastEmit,
                    sinceEvent, sinceEmit, sinceWrite, sepMore, sepAtLeast,
                    consumerLate, scen, cancelAge >>

\* case <-ctx.Done(): return ctx.Err()
TickerCtxDone ==
    /\ tpc = "select"
    /\ gctxDone
    /\ tpc' = "done"
    /\ GroupReturn("Canceled")
    /\ UNCHANGED << lvars, avars >>
    /\ UNCHANGED << readerErr, descriptors, fcnNewErr, dirDescriptorMap, ctxDone, rpc, cur, ri, flush, tickIn, tickAvail,
                    waitDone, fcnErr, eventChanClosed, watcherClosed, refreshClosed,
                    hist >>

\* ------------------------------------------------------------------------
\* The waiting goroutine, the cancellation and the clock
\* ------------------------------------------------------------------------

\* fcn.err = g.Wait(); close(eventChan); fcn.watcher.Close()
WaitReturn ==
    /\ rpc = "done"
    /\ tpc = "done"
    /\ ~waitDone
    /\ waitDone' = TRUE
    /\ fcnErr' = gerr
    /\ eventChanClosed' = TRUE
    /\ watcherClosed' = TRUE
    /\ UNCHANGED << lvars, avars >>
    /\ UNCHANGED << readerErr, descriptors, fcnNewErr, dirDescriptorMap, ctxDone, gctxDone, gerr, rpc, cur, ri, tpc, flush,
                    tickIn, tickAvail, refreshClosed, hist >>

\* the caller cancels the context given to NewFileChangeNotifier
Cancel ==
    /\ fcnNewErr = "none"
    /\ ~ctxDone
    /\ ctxDone' = TRUE
    /\ gctxDone' = TRUE
    /\ UNCHANGED << lvars, avars >>
    /\ UNCHANGED << readerErr, descriptors, fcnNewErr, dirDescriptorMap, gerr, rpc, cur, ri, tpc, flush, tickIn, tickAvail,
                    waitDone, fcnErr, eventChanClosed, watcherClosed, refreshClosed,
                    hist >>

\* some goroutine of the notifier can take a step without the environment
TaskCanStep ==
    \/ rpc = "select" /\ gctxDone
    \/ tpc = "select" /\ gctxDone
    \/ rpc = "send" /\ tpc = "select"
    \/ tpc = "select" /\ tickAvail
    \/ rpc = "done" /\ tpc = "done" /\ ~waitDone

\* one clock unit passes; the ticker's period elapses every flushDuration units
Tick ==
    /\ fcnNewErr = "none"
    /\ ~TaskCanStep
    /\ IF tickIn = 1
       THEN /\ tickIn' = flushDuration
            /\ tickAvail' = TRUE
       ELSE /\ tickIn' = tickIn - 1
            /\ UNCHANGED tickAvail
    /\ sinceEvent' = Min(sinceEvent + 1, flushDuration)
    /\ sinceEmit' = Min(sinceEmit + 1, flushDuration)
    /\ sinceWrite' = Min(sinceWrite + 1, flushDuration + 1)
    /\ cancelAge' = IF ctxDone THEN Min(cancelAge + 1, flushDuration) ELSE cancelAge
    /\ consumerLate' = (consumerLate \/ tpc = "emit")
    /\ UNCHANGED << lvars, avars >>
    /\ UNCHANGED << readerErr, descriptors, fcnNewErr, dirDescriptorMap, ctxDone, gctxDone, gerr, rpc, cur, ri, tpc, flush,
                    waitDone, fcnErr, eventChanClosed, watcherClosed, refreshClosed,
                    nRaw, nQual, nRefQual, unregistered, nHanded, nSignals, pendingN, emitted, delivered, lastEmit,
                    sepMore, sepAtLeast, scen >>

\* ------------------------------------------------------------------------
\* NewEventLoop and Update
\* ------------------------------------------------------------------------

\* a nil Cmd
NilCmd == "nil"

\* no command yet, in the history
NoCmd == "-"

LabelledCmd(label, cmd) == [label |-> label, cmd |-> cmd]

\* the commands and labels the loops are built from
Cmds == {"loadConfigCmd", "fileWaitForUpdateCmd", NilCmd}

Labels == {"CONFIG_LOAD_OK", "FILE_UPDATED"}

\* the messages a command can return (the return statements of the commands
\* of ServeInDevelopment)
Results(cmd) ==
    CASE cmd = "loadConfigCmd"        -> {"FILE_WAIT", "CONFIG_LOAD_OK"}
      [] cmd = "startServerCmd"       -> {"FILE_WAIT", "SERVER_STARTED"}
      [] cmd = "fileWaitForUpdateCmd" -> {"FILE_WAIT", "", "FILE_UPDATED"}
      [] OTHER                        -> {}

Msgs == {"", "FILE_WAIT", "CONFIG_LOAD_OK", "CONFIG_LOAD_FAILED", "SERVER_STARTED",
         "FILE_UPDATED"}

\* the labelled commands, start command and default command of ServeInDevelopment
AppCmds ==
    << LabelledCmd("CONFIG_LOAD_OK", "startServerCmd"),
       LabelledCmd("CONFIG_LOAD_FAILED", "fileWaitForUpdateCmd"),
       LabelledCmd("FILE_UPDATED", "loadConfigCmd"),
       LabelledCmd("SERVER_STARTED", "fileWaitForUpdateCmd") >>

AppStartCmd == "loadConfigCmd"

\* the load command given as the default command
AppDefaultCmdLoadConfig == "loadConfigCmd"

AppDefaultCmd == "fileWaitForUpdateCmd"

\* the lists of labelled commands of length up to MaxCmds
CmdLists ==
    UNION { [1..n -> { LabelledCmd(l, c) : l \in Labels, c \in Cmds }] : n \in 0..MaxCmds }

EmptyCmdMap == [l \in {} |-> NilCmd]

\* the loop over cmds without the test for a label already registered: a later
\* entry overwrites an earlier one
RECURSIVE RegisterCmdsOverwrite(_, _, _)
RegisterCmdsOverwrite(cs, i, m) ==
    IF i > Len(cs) THEN [err |-> "none", cmdMap |-> m]
    ELSE RegisterCmdsOverwrite(cs, i + 1,
             [l \in DOMAIN m \cup {cs[i].label} |->
                 IF l = cs[i].label THEN cs[i].cmd ELSE m[l]])

\* the loop over cmds, from entry i on, with the map built so far
RECURSIVE RegisterCmds(_, _, _)
RegisterCmds(cs, i, m) ==
    IF i > Len(cs) THEN [err |-> "none", cmdMap |-> m]
    ELSE IF cs[i].label \in DOMAIN m
    THEN [err |-> "already registered", cmdMap |-> EmptyCmdMap]
    ELSE RegisterCmds(cs, i + 1,
             [l \in DOMAIN m \cup {cs[i].label} |->
                 IF l = cs[i].label THEN cs[i].cmd ELSE m[l]])

NewEventLoop(cs) ==
    IF Len(cs) < 1 THEN [err |-> "no cmds", cmdMap |-> EmptyCmdMap]
    ELSE RegisterCmds(cs, 1, EmptyCmdMap)

\* Update without the lookup
UpdateDefaultOnly(msg) == defaultCmd

\* "It takes a message and returns the next command to run."
Update(msg) ==
    IF msg \in DOMAIN cmdMap THEN cmdMap[msg] ELSE defaultCmd

LoopInitWith(cs, start, default) ==
    /\ cmds = cs
    /\ startCmd = start
    /\ defaultCmd = default
    /\ newErr = NewEventLoop(cs).err
    /\ cmdMap = NewEventLoop(cs).cmdMap
    /\ msgChanClosed = FALSE
    /\ runCtxDone = FALSE
    /\ lpc = IF NewEventLoop(cs).err = "none" THEN "start" ELSE "none"
    /\ tasks = <<>>
    /\ aborted = "none"
    /\ stoppedAt = "never"
    /\ nStart = 0
    /\ nSched = 0
    /\ nRecv = 0
    /\ firstSched = NoCmd
    /\ lastSched = NoCmd
    /\ prevSched = NoCmd
    /\ lastRecv = ""
    /\ lastSender = NoCmd
    /\ updLast = [msg |-> "", cmd |-> NoCmd]
    /\ updSame = TRUE

\* no event loop exists
LoopNotConstructed == LoopInitWith(<<>>, NilCmd, NilCmd)

\* no load has run yet
NoLoad == [read |-> "-", msg |-> "-"]

\* the variables of ServeInDevelopment as it declares them (lines 99-101)
AppVarsInit ==
    /\ cfg = "nil"
    /\ templateDir = "default"
    /\ srv = 0
    /\ servers = << >>
    /\ servePending = 0
    /\ lastLoad = NoLoad
    /\ liveNotifiers = 0

\* ServeInDevelopment is not called
AppNotStarted ==
    /\ AppVarsInit
    /\ configFile = "unreadable"
    /\ watchDirsExist = TRUE
    /\ devReturn = "none"

\* ------------------------------------------------------------------------
\* EventLoop.Run, its command goroutines, and Stop
\* ------------------------------------------------------------------------

RemoveAt(seq, i) == SubSeq(seq, 1, i - 1) \o SubSeq(seq, i + 1, Len(seq))

\* doCmd starting the goroutine on the start command instead of cmd
SpawnStartCmd(ts, cmd) == Append(ts, [cmd |-> startCmd, pc |-> "cmd", msg |-> ""])

\* doCmd starting two goroutines on cmd
SpawnTwice(ts, cmd) ==
    Append(Append(ts, [cmd |-> cmd, pc |-> "cmd", msg |-> ""]),
           [cmd |-> cmd, pc |-> "cmd", msg |-> ""])

\* go func() { select { ... e.msgChan <- cmd(ctx) } }(): the goroutine first runs cmd
Spawn(ts, cmd) == Append(ts, [cmd |-> cmd, pc |-> "cmd", msg |-> ""])

\* the history of a command scheduled by doCmd
Scheduled(cmd) ==
    /\ nSched' = Min(nSched + 1, MaxMsgs + 1)
    /\ firstSched' = IF nSched = 0 THEN cmd ELSE firstSched
    /\ prevSched' = lastSched
    /\ lastSched' = cmd

\* doCmd that returns on a nil command instead of panicking
DoCmdSkipNil(cmd, ts) ==
    IF cmd = NilCmd
    THEN /\ tasks' = ts
         /\ UNCHANGED << aborted, nSched, firstSched, prevSched, lastSched >>
    ELSE /\ tasks' = Spawn(ts, cmd)
         /\ Scheduled(cmd)
         /\ UNCHANGED aborted

\* doCmd(cmd) on the goroutines ts: panic on nil, else start the goroutine
DoCmd(cmd, ts) ==
    IF cmd = NilCmd
    THEN /\ aborted' = "nil command"
         /\ tasks' = ts
         /\ UNCHANGED << nSched, firstSched, prevSched, lastSched >>
    ELSE /\ tasks' = Spawn(ts, cmd)
         /\ Scheduled(cmd)
         /\ UNCHANGED aborted

\* close(e.msgChan)
Stop ==
    IF msgChanClosed
    THEN /\ aborted' = "close of closed channel"
         /\ UNCHANGED msgChanClosed
    ELSE /\ msgChanClosed' = TRUE
         /\ UNCHANGED aborted

\* Run: doCmd(e.startCmd), then range over e.msgChan
RunStart ==
    /\ lpc = "start"
    /\ aborted = "none"
    /\ DoCmd(startCmd, tasks)
    /\ lpc' = IF startCmd = NilCmd THEN lpc ELSE "recv"
    /\ nStart' = IF startCmd = NilCmd THEN nStart ELSE nStart + 1
    /\ UNCHANGED << cmds, startCmd, defaultCmd, cmdMap, newErr, msgChanClosed,
                    runCtxDone, stoppedAt, nRecv, lastRecv, lastSender, updLast,
                    updSame >>
    /\ UNCHANGED << nvars, avars >>

\* a goroutine's cmd(ctx) returns its message; the goroutine enters the select
TaskCmdReturns ==
    /\ aborted = "none"
    /\ \E i \in 1..Len(tasks) :
          /\ tasks[i].pc = "cmd"
          /\ \E m \in Results(tasks[i].cmd) :
                tasks' = [tasks EXCEPT ![i] = [cmd |-> @.cmd, pc |-> "select", msg |-> m]]
    /\ UNCHANGED << cmds, startCmd, defaultCmd, cmdMap, newErr, msgChanClosed,
                    runCtxDone, lpc, aborted, stoppedAt, lhist, updLast, updSame >>
    /\ UNCHANGED << nvars, avars >>

\* case e.msgChan <- msg meets Run's range: cmd := e.Update(msg); doCmd(cmd)
LoopRecv ==
    /\ lpc = "recv"
    /\ aborted = "none"
    /\ ~msgChanClosed
    /\ \E i \in 1..Len(tasks) :
          /\ tasks[i].pc = "select"
          /\ nRecv' = Min(nRecv + 1, MaxMsgs)
          /\ lastRecv' = tasks[i].msg
          /\ lastSender' = tasks[i].cmd
          /\ DoCmd(Update(tasks[i].msg), RemoveAt(tasks, i))
    /\ UNCHANGED << cmds, startCmd, defaultCmd, cmdMap, newErr, msgChanClosed,
                    runCtxDone, lpc, stoppedAt, nStart, updLast, updSame >>
    /\ UNCHANGED << nvars, avars >>

\* case <-ctx.Done(): e.Stop()
TaskCtxDone ==
    /\ aborted = "none"
    /\ runCtxDone
    /\ \E i \in 1..Len(tasks) :
          /\ tasks[i].pc = "select"
          /\ tasks' = RemoveAt(tasks, i)
    /\ Stop
    /\ UNCHANGED << cmds, startCmd, defaultCmd, cmdMap, newErr, runCtxDone, lpc,
                    stoppedAt, lhist, updLast, updSame >>
    /\ UNCHANGED << nvars, avars >>

\* case e.msgChan <- msg on the closed channel: the send panics
TaskSendOnClosed ==
    /\ aborted = "none"
    /\ msgChanClosed
    /\ \E i \in 1..Len(tasks) : tasks[i].pc = "select"
    /\ aborted' = "send on closed channel"
    /\ UNCHANGED << cmds, startCmd, defaultCmd, cmdMap, newErr, msgChanClosed,
                    runCtxDone, lpc, tasks, stoppedAt, lhist, updLast, updSame >>
    /\ UNCHANGED << nvars, avars >>

\* the range over the closed e.msgChan ends and Run returns
LoopRangeEnd ==
    /\ lpc = "recv"
    /\ aborted = "none"
    /\ msgChanClosed
    /\ lpc' = "returned"
    /\ UNCHANGED << cmds, startCmd, defaultCmd, cmdMap, newErr, msgChanClosed,
                    runCtxDone, tasks, aborted, stoppedAt, lhist, updLast, updSame >>
    /\ UNCHANGED << nvars, avars >>

\* a caller of the loop calls e.Stop()
ExternalStop ==
    /\ newErr = "none"
    /\ aborted = "none"
    /\ stoppedAt = "never"
    /\ stoppedAt' = lpc
    /\ Stop
    /\ UNCHANGED << cmds, startCmd, defaultCmd, cmdMap, newErr, runCtxDone, lpc,
                    tasks, lhist, updLast, updSame >>
    /\ UNCHANGED << nvars, avars >>

\* the context given to Run is cancelled
RunCancel ==
    /\ newErr = "none"
    /\ aborted = "none"
    /\ ~runCtxDone
    /\ runCtxDone' = TRUE
    /\ UNCHANGED << cmds, startCmd, defaultCmd, cmdMap, newErr, msgChanClosed, lpc,
                    tasks, aborted, stoppedAt, lhist, updLast, updSame >>
    /\ UNCHANGED << nvars, avars >>

\* a caller of the loop calls e.Update(msg)
CallUpdate ==
    /\ newErr = "none"
    /\ aborted = "none"
    /\ \E m \in Msgs :
          /\ updLast' = [msg |-> m, cmd |-> Update(m)]
          /\ updSame' = (updSame /\ (updLast.msg = m /\ updLast.cmd # NoCmd
                                        => updLast.cmd = Update(m)))
    /\ UNCHANGED << cmds, startCmd, defaultCmd, cmdMap, newErr, msgChanClosed,
                    runCtxDone, lpc, tasks, aborted, stoppedAt, lhist >>
    /\ UNCHANGED << nvars, avars >>

LoopInit ==
    /\ \/ \E cs \in CmdLists, start \in Cmds, default \in Cmds :
             LoopInitWith(cs, start, default)
       \/ LoopInitWith(AppCmds, AppStartCmd, AppDefaultCmd)
    /\ NotifierInitWith(TestDescriptors)
    /\ AppNotStarted

LoopNext ==
    \/ RunStart
    \/ TaskCmdReturns
    \/ LoopRecv
    \/ TaskCtxDone
    \/ TaskSendOnClosed
    \/ LoopRangeEnd
    \/ ExternalStop
    \/ RunCancel
    \/ CallUpdate

LoopSpec == LoopInit /\ [][LoopNext]_vars

\* The scheduler runs every goroutine that can run; a command returns once the
\* context is cancelled; a select that is entered again and again with
\* ctx.Done() ready takes that case at some point (the choice among ready cases
\* is uniformly random).
LoopFairSpec ==
    /\ LoopSpec
    /\ WF_vars(RunStart)
    /\ WF_vars(runCtxDone /\ TaskCmdReturns)
    /\ SF_vars(TaskCtxDone)
    /\ WF_vars(LoopRangeEnd)

\* ------------------------------------------------------------------------
\* App.ServeInDevelopment: the commands of the development-mode controller
\* ------------------------------------------------------------------------

ConfigStates == {"unreadable", "invalid", "v1", "v2"}

\* the states of configFile that os.ReadFile and newConfig accept
ValidConfigs == {"v1", "v2"}

\* the goroutines with the one at i moved to pc with result msg
SetTask(i, pc, msg) == [tasks EXCEPT ![i] = [cmd |-> @.cmd, pc |-> pc, msg |-> msg]]

\* the return statements of loadConfigCmd
LoadConfigMsg(file) ==
    IF file \in ValidConfigs THEN "CONFIG_LOAD_OK" ELSE "FILE_WAIT"

\* loadConfigCmd assigning cfg and templateDir before it tests the error
loadConfigCmdAssignsFirst ==
    /\ aborted = "none"
    /\ \E i \in 1..Len(tasks) :
          /\ tasks[i].cmd = "loadConfigCmd"
          /\ tasks[i].pc = "cmd"
          /\ tasks' = SetTask(i, "select", LoadConfigMsg(configFile))
    /\ IF configFile \in ValidConfigs
       THEN /\ cfg' = configFile
            /\ templateDir' = configFile
       ELSE /\ cfg' = "nil"
            /\ templateDir' = "default"
    /\ lastLoad' = [read |-> configFile, msg |-> LoadConfigMsg(configFile)]
    /\ UNCHANGED << cmds, startCmd, defaultCmd, cmdMap, newErr, msgChanClosed,
                    runCtxDone, lpc, aborted, stoppedAt, lhist, updLast, updSame >>
    /\ UNCHANGED << configFile, watchDirsExist, srv, servers, servePending, devReturn, liveNotifiers >>
    /\ UNCHANGED nvars

\* loadConfigCmd runs: read and parse configFile, cache cfg and templateDir
loadConfigCmd ==
    /\ aborted = "none"
    /\ \E i \in 1..Len(tasks) :
          /\ tasks[i].cmd = "loadConfigCmd"
          /\ tasks[i].pc = "cmd"
          /\ tasks' = SetTask(i, "select", LoadConfigMsg(configFile))
    /\ IF configFile \in ValidConfigs
       THEN /\ cfg' = configFile
            /\ templateDir' = configFile
       ELSE UNCHANGED << cfg, templateDir >>
    /\ lastLoad' = [read |-> configFile, msg |-> LoadConfigMsg(configFile)]
    /\ UNCHANGED << cmds, startCmd, defaultCmd, cmdMap, newErr, msgChanClosed,
                    runCtxDone, lpc, aborted, stoppedAt, lhist, updLast, updSame >>
    /\ UNCHANGED << configFile, watchDirsExist, srv, servers, servePending, devReturn, liveNotifiers >>
    /\ UNCHANGED nvars

\* srv.webServer.Shutdown(context.Background()): returns when the instance has
\* stopped listening; a second call changes nothing
Shutdown(svs, id) ==
    [svs EXCEPT ![id] = IF @ \in {"built", "serving"} THEN "closed" ELSE @]

\* what newServer(address, port, cfg) can return
NewServerResults == {"ok", "error"}

\* startServerCmd without the shutdown of the previous instance
startServerCmdNoShutdown ==
    /\ aborted = "none"
    /\ \E i \in 1..Len(tasks) :
          /\ tasks[i].cmd = "startServerCmd"
          /\ tasks[i].pc = "cmd"
          /\ LET stopped == servers IN
             \E r \in NewServerResults :
                IF r = "ok"
                THEN /\ Len(servers) < MaxServers
                     /\ servers' = Append(stopped, "built")
                     /\ srv' = Len(servers) + 1
                     /\ servePending' = servePending + 1
                     /\ tasks' = SetTask(i, "select", "SERVER_STARTED")
                ELSE /\ servers' = stopped
                     /\ srv' = 0
                     /\ UNCHANGED servePending
                     /\ tasks' = SetTask(i, "select", "FILE_WAIT")
    /\ UNCHANGED << cmds, startCmd, defaultCmd, cmdMap, newErr, msgChanClosed,
                    runCtxDone, lpc, aborted, stoppedAt, lhist, updLast, updSame >>
    /\ UNCHANGED << configFile, watchDirsExist, cfg, templateDir, devReturn, lastLoad, liveNotifiers >>
    /\ UNCHANGED nvars

\* startServerCmd ending the process when newServer fails
startServerCmdFatal ==
    /\ aborted = "none"
    /\ \E i \in 1..Len(tasks) :
          /\ tasks[i].cmd = "startServerCmd"
          /\ tasks[i].pc = "cmd"
          /\ LET stopped == IF srv # 0 THEN Shutdown(servers, srv) ELSE servers IN
             \E r \in NewServerResults :
                IF r = "ok"
                THEN /\ Len(servers) < MaxServers
                     /\ servers' = Append(stopped, "built")
                     /\ srv' = Len(servers) + 1
                     /\ servePending' = servePending + 1
                     /\ tasks' = SetTask(i, "select", "SERVER_STARTED")
                     /\ UNCHANGED aborted
                ELSE /\ servers' = stopped
                     /\ srv' = 0
                     /\ aborted' = "server could not be built"
                     /\ tasks' = SetTask(i, "select", "FILE_WAIT")
                     /\ UNCHANGED servePending
    /\ UNCHANGED << cmds, startCmd, defaultCmd, cmdMap, newErr, msgChanClosed,
                    runCtxDone, lpc, stoppedAt, lhist, updLast, updSame >>
    /\ UNCHANGED << configFile, watchDirsExist, cfg, templateDir, devReturn, lastLoad, liveNotifiers >>
    /\ UNCHANGED nvars

\* startServerCmd runs: shut the previous instance down, build the next one
\* and start its serve goroutine
startServerCmd ==
    /\ aborted = "none"
    /\ \E i \in 1..Len(tasks) :
          /\ tasks[i].cmd = "startServerCmd"
          /\ tasks[i].pc = "cmd"
          /\ LET stopped == IF srv # 0 THEN Shutdown(servers, srv) ELSE servers IN
             \E r \in NewServerResults :
                IF r = "ok"
                THEN /\ Len(servers) < MaxServers
                     /\ servers' = Append(stopped, "built")
                     /\ srv' = Len(servers) + 1
                     /\ servePending' = servePending + 1
                     /\ tasks' = SetTask(i, "select", "SERVER_STARTED")
                ELSE /\ servers' = stopped
                     /\ srv' = 0
                     /\ UNCHANGED servePending
                     /\ tasks' = SetTask(i, "select", "FILE_WAIT")
    /\ UNCHANGED << cmds, startCmd, defaultCmd, cmdMap, newErr, msgChanClosed,
                    runCtxDone, lpc, aborted, stoppedAt, lhist, updLast, updSame >>
    /\ UNCHANGED << configFile, watchDirsExist, cfg, templateDir, devReturn, lastLoad, liveNotifiers >>
    /\ UNCHANGED nvars

\* the goroutine of wg.Go runs a.serveFunc(srv): it reads srv when it runs, and
\* the instance starts to listen, has been shut down already, or fails
ServeBegins ==
    /\ aborted = "none"
    /\ servePending > 0
    /\ servePending' = servePending - 1
    /\ IF srv = 0
       THEN /\ aborted' = "nil server"
            /\ UNCHANGED servers
       ELSE IF servers[srv] = "built"
       THEN \E ok \in BOOLEAN :
               IF ok
               THEN /\ servers' = [servers EXCEPT ![srv] = "serving"]
                    /\ UNCHANGED aborted
               ELSE /\ servers' = [servers EXCEPT ![srv] = "failed"]
                    /\ aborted' = "fatal server error"
       ELSE IF servers[srv] = "serving"
       THEN /\ aborted' = "fatal server error"
            /\ UNCHANGED servers
       ELSE UNCHANGED << servers, aborted >>
    /\ UNCHANGED << cmds, startCmd, defaultCmd, cmdMap, newErr, msgChanClosed,
                    runCtxDone, lpc, tasks, stoppedAt, lhist, updLast, updSame >>
    /\ UNCHANGED << configFile, watchDirsExist, cfg, templateDir, srv, devReturn,
                    lastLoad, liveNotifiers >>
    /\ UNCHANGED nvars

\* the serve goroutine logging the error of a.serveFunc and ending
ServeFailsLogged ==
    /\ aborted = "none"
    /\ \E id \in 1..Len(servers) :
          /\ servers[id] = "serving"
          /\ servers' = [servers EXCEPT ![id] = "failed"]
    /\ UNCHANGED << cmds, startCmd, defaultCmd, cmdMap, newErr, msgChanClosed,
                    runCtxDone, lpc, tasks, aborted, stoppedAt, lhist, updLast, updSame >>
    /\ UNCHANGED << configFile, watchDirsExist, cfg, templateDir, srv, servePending,
                    devReturn, lastLoad, liveNotifiers >>
    /\ UNCHANGED nvars

\* a.serveFunc returns an error that is not http.ErrServerClosed: log.Fatalf
ServeFails ==
    /\ aborted = "none"
    /\ \E id \in 1..Len(servers) :
          /\ servers[id] = "serving"
          /\ servers' = [servers EXCEPT ![id] = "failed"]
    /\ aborted' = "fatal server error"
    /\ UNCHANGED << cmds, startCmd, defaultCmd, cmdMap, newErr, msgChanClosed,
                    runCtxDone, lpc, tasks, stoppedAt, lhist, updLast, updSame >>
    /\ UNCHANGED << configFile, watchDirsExist, cfg, templateDir, srv, servePending,
                    devReturn, lastLoad, liveNotifiers >>
    /\ UNCHANGED nvars

\* the descriptors of fileWaitForUpdateCmd: the directory of configFile (A)
\* with its extension, and templateDir (B, or Z when it does not exist) with
\* the template suffixes
WatchDescriptors ==
    << Descriptor("A", <<s_txt>>),
       Descriptor(IF watchDirsExist THEN "B" ELSE "Z", <<s_html>>) >>

\* fileWaitForUpdateCmd runs up to its select: NewFileChangeNotifier, log.Fatalf
\* on its error, else start fcn.Watch(ctx) and block
fileWaitForUpdateCmdNew ==
    /\ aborted = "none"
    /\ \E i \in 1..Len(tasks) :
          /\ tasks[i].cmd = "fileWaitForUpdateCmd"
          /\ tasks[i].pc = "cmd"
          /\ IF NewFileChangeNotifier(WatchDescriptors).err # "none"
             THEN /\ aborted' = "error initialising watcher"
                  /\ UNCHANGED tasks
             ELSE /\ tasks' = SetTask(i, "wait", "")
                  /\ UNCHANGED aborted
    /\ liveNotifiers' = IF NewFileChangeNotifier(WatchDescriptors).err # "none"
                        THEN liveNotifiers
                        ELSE Min(liveNotifiers + 1, MaxNotifiers)
    /\ UNCHANGED << cmds, startCmd, defaultCmd, cmdMap, newErr, msgChanClosed,
                    runCtxDone, lpc, stoppedAt, lhist, updLast, updSame >>
    /\ UNCHANGED << configFile, watchDirsExist, cfg, templateDir, srv, servers,
                    servePending, devReturn, lastLoad >>
    /\ UNCHANGED nvars

\* fileWaitForUpdateCmd returning CONFIG_LOAD_OK when fcn.Watch(ctx) has returned
WatchReturnMsgsLoadOk == {"CONFIG_LOAD_OK"}

\* the messages fileWaitForUpdateCmd returns when fcn.Watch(ctx) has returned:
\* the receive from watchErrChan, or the receive from the closed fcn.Update()
WatchReturnMsgs == {"FILE_WAIT", ""}

\* fcn.Watch(ctx) returns, on a failure of the watch or when ctx is done, and
\* the select of fileWaitForUpdateCmd takes one of its two cases
fileWaitForUpdateCmdWatchReturns ==
    /\ aborted = "none"
    /\ \E i \in 1..Len(tasks) :
          /\ tasks[i].cmd = "fileWaitForUpdateCmd"
          /\ tasks[i].pc = "wait"
          /\ \E m \in WatchReturnMsgs : tasks' = SetTask(i, "select", m)
    /\ liveNotifiers' = IF liveNotifiers > 0 THEN liveNotifiers - 1 ELSE 0
    /\ UNCHANGED << cmds, startCmd, defaultCmd, cmdMap, newErr, msgChanClosed,
                    runCtxDone, lpc, aborted, stoppedAt, lhist, updLast, updSame >>
    /\ UNCHANGED << configFile, watchDirsExist, cfg, templateDir, srv, servers,
                    servePending, devReturn, lastLoad >>
    /\ UNCHANGED nvars

\* a watched file is written while fileWaitForUpdateCmd is blocked: the signal
\* of fcn.Update() arrives and the command returns FILE_UPDATED
fileWaitForUpdateCmdUpdate ==
    /\ aborted = "none"
    /\ \E i \in 1..Len(tasks) :
          /\ tasks[i].cmd = "fileWaitForUpdateCmd"
          /\ tasks[i].pc = "wait"
          /\ tasks' = SetTask(i, "select", "FILE_UPDATED")
    /\ \E c \in ConfigStates : configFile' = c
    /\ UNCHANGED << cmds, startCmd, defaultCmd, cmdMap, newErr, msgChanClosed,
                    runCtxDone, lpc, aborted, stoppedAt, lhist, updLast, updSame >>
    /\ UNCHANGED << watchDirsExist, cfg, templateDir, srv, servers, servePending,
                    devReturn, lastLoad, liveNotifiers >>
    /\ UNCHANGED nvars

\* the Watch of a notifier whose command has returned with FILE_UPDATED
\* returns, on a failure of the watch or when ctx is done (its goroutine then
\* stays at the send on watchErrChan)
AbandonedWatchReturns ==
    /\ aborted = "none"
    /\ liveNotifiers > 0
    /\ \A i \in 1..Len(tasks) : tasks[i].pc # "wait"
    /\ liveNotifiers' = liveNotifiers - 1
    /\ UNCHANGED lvars
    /\ UNCHANGED << configFile, watchDirsExist, cfg, templateDir, srv, servers,
                    servePending, devReturn, lastLoad >>
    /\ UNCHANGED nvars

\* the files change while no command is watching them, or the template
\* directory is removed or created
FilesChangeUnwatched ==
    /\ aborted = "none"
    /\ devReturn = "running"
    /\ \A i \in 1..Len(tasks) : tasks[i].pc # "wait"
    /\ \E c \in ConfigStates, d \in BOOLEAN :
          /\ << c, d >> # << configFile, watchDirsExist >>
          /\ configFile' = c
          /\ watchDirsExist' = d
    /\ UNCHANGED lvars
    /\ UNCHANGED << cfg, templateDir, srv, servers, servePending, devReturn, lastLoad, liveNotifiers >>
    /\ UNCHANGED nvars

\* el.Run(ctx) has returned: return nil
ServeInDevelopmentReturns ==
    /\ aborted = "none"
    /\ lpc = "returned"
    /\ devReturn = "running"
    /\ devReturn' = "nil"
    /\ UNCHANGED lvars
    /\ UNCHANGED << configFile, watchDirsExist, cfg, templateDir, srv, servers,
                    servePending, lastLoad, liveNotifiers >>
    /\ UNCHANGED nvars

\* ServeInDevelopment up to el.Run(ctx): the loop of lines 192-201 is built
ControllerInit ==
    /\ LoopInitWith(AppCmds, AppStartCmd, AppDefaultCmd)
    /\ NotifierInitWith(<< >>)
    /\ AppVarsInit
    /\ configFile \in ConfigStates
    /\ watchDirsExist \in BOOLEAN
    /\ devReturn = "running"

\* The loop is local to ServeInDevelopment: nothing calls Stop from outside,
\* and with one command in flight at a time no goroutine is left to send once
\* e.msgChan is closed.
ControllerNext ==
    \/ RunStart
    \/ loadConfigCmd
    \/ startServerCmd
    \/ ServeBegins
    \/ ServeFails
    \/ fileWaitForUpdateCmdNew
    \/ fileWaitForUpdateCmdWatchReturns
    \/ fileWaitForUpdateCmdUpdate
    \/ AbandonedWatchReturns
    \/ FilesChangeUnwatched
    \/ LoopRecv
    \/ TaskCtxDone
    \/ LoopRangeEnd
    \/ RunCancel
    \/ ServeInDevelopmentReturns

ControllerSpec == ControllerInit /\ [][ControllerNext]_vars

\* The scheduler runs every goroutine that can run; fcn.Watch returns once the
\* context is cancelled; the select of doCmd, entered again and again with
\* ctx.Done() ready, takes that case at some point.
ControllerFairSpec ==
    /\ ControllerSpec
    /\ WF_vars(RunStart)
    /\ WF_vars(loadConfigCmd)
    /\ WF_vars(startServerCmd)
    /\ WF_vars(ServeBegins)
    /\ WF_vars(fileWaitForUpdateCmdNew)
    /\ WF_vars(runCtxDone /\ fileWaitForUpdateCmdWatchReturns)
    /\ WF_vars(LoopRecv)
    /\ SF_vars(TaskCtxDone)
    /\ WF_vars(LoopRangeEnd)
    /\ WF_vars(ServeInDevelopmentReturns)

NotifierNext ==
    \/ ReaderCtxDone
    \/ ReaderFatal
    \/ ReaderEvent
    \/ EventChanSend
    \/ TickerOnTick
    \/ ConsumerRecv
    \/ TickerCtxDone
    \/ WaitReturn
    \/ Cancel
    \/ Tick

NotifierInit ==
    /\ \E descs \in DescriptorChoices : NotifierInitWith(descs)
    /\ LoopNotConstructed
    /\ AppNotStarted

NotifierSpec == NotifierInit /\ [][NotifierNext]_vars

\* The scheduler runs the goroutines that can run, the clock advances, and the
\* consumer of fcn.refresh keeps receiving.
NotifierFairSpec ==
    /\ NotifierSpec
    /\ WF_vars(EventChanSend)
    /\ WF_vars(TickerOnTick)
    /\ WF_vars(ConsumerRecv)
    /\ WF_vars(Tick)

\* ------------------------------------------------------------------------
\* Claims about the notifier
\* ------------------------------------------------------------------------

\* C1: every coalesced signal stands for N >= 1 qualifying events; it is
\* emitted only when a whole flush window has passed since the coalescer last
\* received a qualifying event (so events less than a window apart are never
\* split over two signals) and since the previous signal (so there is at most
\* one signal per window); while it is being emitted nothing is pending.
C1_DebounceCoalescing ==
    /\ emitted > 0 =>
          /\ lastEmit.covered >= 1
          /\ lastEmit.quiet >= flushDuration
          /\ lastEmit.gap >= flushDuration
    /\ tpc = "emit" => pendingN = 0
    /\ pendingN > 0 => flush

\* two raw events handed over in one window, flushed as one signal
C1_Witness ==
    /\ nHanded >= 2
    /\ emitted = 1
    /\ pendingN = 0
    /\ rpc = "select"
    /\ delivered = 1

\* the reader and the ticker are waiting and nothing is left to flush
Settled == rpc = "select" /\ tpc = "select" /\ ~flush

C4_CancelReturnsWithinWindow ==
    (ctxDone /\ cancelAge >= flushDuration /\ gerr \in {"none", "Canceled"}) =>
        (waitDone /\ fcnErr = "Canceled")

\* C5: once the watch has returned the change stream fcn.refresh is closed.
C5_StreamClosedWhenWatchReturned ==
    waitDone => refreshClosed

\* C6: a flush window after the cancellation fired both the event reader and
\* the debounce ticker have exited, whatever they were blocked on.
C6_BothTasksExitOnCancel ==
    (ctxDone /\ cancelAge >= flushDuration) => (rpc = "done" /\ tpc = "done")

\* ------------------------------------------------------------------------
\* Claims about the event loop
\* ------------------------------------------------------------------------

\* the command registered for a message in the list given to NewEventLoop,
\* the default command if there is none
RefCommandFor(m) ==
    IF \E i \in 1..Len(cmds) : cmds[i].label = m
    THEN cmds[CHOOSE i \in 1..Len(cmds) : cmds[i].label = m].cmd
    ELSE defaultCmd

\* C7: Run schedules the start command once and before it receives anything;
\* after that it schedules one command per message received, namely the
\* command of that message (the registered one, else the default), and each
\* message received is a result of the command scheduled just before, sent by
\* that command's goroutine.
C7_RunSchedulesStartThenUpdate ==
    /\ lpc = "start" => (nStart = 0 /\ nSched = 0 /\ nRecv = 0)
    /\ lpc \in {"recv", "returned"} => (nStart = 1 /\ firstSched = startCmd)
    /\ (lpc \in {"recv", "returned"} /\ aborted # "nil command") => nSched = nRecv + 1
    /\ (nRecv > 0 /\ aborted # "nil command") => lastSched = RefCommandFor(lastRecv)
    /\ nRecv > 0 =>
          /\ lastRecv \in Results(lastSender)
          /\ lastSender = IF aborted = "nil command" THEN lastSched ELSE prevSched
    /\ \A i \in 1..Len(tasks) :
          tasks[i].pc = "select" => tasks[i].msg \in Results(tasks[i].cmd)

\* two messages received, the last one registered, its command in flight
C7_Witness ==
    /\ nRecv >= 2
    /\ lpc = "recv"
    /\ aborted = "none"
    /\ lastRecv \in DOMAIN cmdMap
    /\ lastSched # defaultCmd
    /\ lastSched # startCmd
    /\ Len(tasks) = 1

\* none of the commands of the loop is nil
NoNilCmd ==
    /\ startCmd # NilCmd
    /\ defaultCmd # NilCmd
    /\ \A l \in DOMAIN cmdMap : cmdMap[l] # NilCmd

C9_NoSendOnClosedChannel ==
    stoppedAt = "recv" => aborted # "send on closed channel"

\* C10: a call of Update returns the command registered for the message, the
\* default command if there is none; repeated calls return the same command;
\* the call changes nothing of the loop, and the command map never changes.
C10_UpdateIsPureLookup ==
    /\ [](updLast.cmd # NoCmd => updLast.cmd = RefCommandFor(updLast.msg))
    /\ []updSame
    /\ [][ /\ cmdMap' = cmdMap
           /\ updLast' # updLast =>
                 UNCHANGED << cmds, startCmd, defaultCmd, cmdMap, newErr, msgChanClosed,
                              runCtxDone, lpc, tasks, aborted, stoppedAt, lhist >> ]_vars

\* Update called during the run for a registered message whose command is not
\* the default one
C10_Witness ==
    /\ updLast.cmd # NoCmd
    /\ updLast.msg \in DOMAIN cmdMap
    /\ updLast.cmd # defaultCmd
    /\ nRecv > 0

\* ------------------------------------------------------------------------
\* Claims about construction
\* ------------------------------------------------------------------------

\* some label occurs more than once in the list
HasDuplicateLabel(cs) ==
    \E i, j \in 1..Len(cs) : i # j /\ cs[i].label = cs[j].label

\* C11: NewEventLoop returns an error and no loop exactly when the list of
\* labelled commands is empty or some label occurs more than once; otherwise
\* the command map has exactly one entry per supplied label, holding that
\* label's command.
C11_NewEventLoopValidation ==
    /\ (newErr # "none") <=> (Len(cmds) = 0 \/ HasDuplicateLabel(cmds))
    /\ newErr # "none" => (lpc = "none" /\ cmdMap = EmptyCmdMap)
    /\ newErr = "none" =>
          /\ DOMAIN cmdMap = { cmds[i].label : i \in 1..Len(cmds) }
          /\ Cardinality(DOMAIN cmdMap) = Len(cmds)
          /\ \A i \in 1..Len(cmds) : cmdMap[cmds[i].label] = cmds[i].cmd

\* a loop was built from a list of two labelled commands and is running
C11_Witness ==
    /\ newErr = "none"
    /\ Len(cmds) >= 2
    /\ Cardinality(DOMAIN cmdMap) = Len(cmds)
    /\ lpc = "recv"

\* the descriptor list is empty, names something that is not an existing
\* directory, or names the same cleaned directory twice
BadDescriptors(descs) ==
    \/ Len(descs) = 0
    \/ \E i \in 1..Len(descs) : StatPath(CleanPath(descs[i].Dir)) # "dir"
    \/ \E i, j \in 1..Len(descs) :
          i # j /\ CleanPath(descs[i].Dir) = CleanPath(descs[j].Dir)

\* C12: NewFileChangeNotifier returns an error and no notifier (no map, no
\* goroutine) if the descriptor list is empty, if a directory is missing or
\* not a directory, or if a cleaned directory occurs in two descriptors; after
\* a successful construction the registered directories are the cleaned
\* directories of the descriptors, each registered by exactly one descriptor.
C12_NewFileChangeNotifierValidation ==
    /\ BadDescriptors(descriptors) =>
          /\ fcnNewErr # "none"
          /\ dirDescriptorMap = EmptyMap
          /\ rpc = "none" /\ tpc = "none"
    /\ fcnNewErr = "none" =>
          /\ DOMAIN dirDescriptorMap =
                { CleanPath(descriptors[i].Dir) : i \in 1..Len(descriptors) }
          /\ Cardinality(DOMAIN dirDescriptorMap) = Len(descriptors)

\* the construction was refused for a directory given twice under two spellings
C12_Witness ==
    /\ fcnNewErr = "already registered"
    /\ \E i, j \in 1..Len(descriptors) :
          /\ descriptors[i].Dir # descriptors[j].Dir
          /\ CleanPath(descriptors[i].Dir) = CleanPath(descriptors[j].Dir)
    /\ rpc = "none"

\* ------------------------------------------------------------------------
\* Claims about nil commands
\* ------------------------------------------------------------------------

\* C13: a nil Cmd is never run by a goroutine; Run gets past the scheduling of
\* the start command only if it is not nil, and past the scheduling of the
\* command of a received message only if that command is not nil (then it is
\* the one scheduled); and the loop fails with "received nil command" only at
\* one of these two moments.
C13_NilCommandFailsFast ==
    /\ \A i \in 1..Len(tasks) : tasks[i].cmd # NilCmd
    /\ aborted # "nil command" =>
          /\ (newErr = "none" /\ lpc # "start") => startCmd # NilCmd
          /\ nRecv > 0 => (Update(lastRecv) # NilCmd /\ lastSched = Update(lastRecv))
    /\ aborted = "nil command" =>
          \/ lpc = "start" /\ startCmd = NilCmd /\ nSched = 0
          \/ nRecv > 0 /\ Update(lastRecv) = NilCmd

\* the loop failed on a nil command found by Update for a received message
C13_Witness ==
    /\ aborted = "nil command"
    /\ startCmd # NilCmd
    /\ nRecv > 0
    /\ Update(lastRecv) = NilCmd

\* ------------------------------------------------------------------------
\* Claims about the development-mode controller
\* ------------------------------------------------------------------------

\* C14: the table of the controller is CONFIG_LOAD_OK -> start server,
\* CONFIG_LOAD_FAILED -> wait for file change, FILE_UPDATED -> load config,
\* SERVER_STARTED -> wait for file change, any other message -> wait for file
\* change; the start command is load config; and Run schedules by this table.
C14_ControllerTransitions ==
    /\ Update("CONFIG_LOAD_OK") = "startServerCmd"
    /\ Update("CONFIG_LOAD_FAILED") = "fileWaitForUpdateCmd"
    /\ Update("FILE_UPDATED") = "loadConfigCmd"
    /\ Update("SERVER_STARTED") = "fileWaitForUpdateCmd"
    /\ \A m \in Msgs \ {"CONFIG_LOAD_OK", "CONFIG_LOAD_FAILED", "FILE_UPDATED",
                        "SERVER_STARTED"} : Update(m) = "fileWaitForUpdateCmd"
    /\ startCmd = "loadConfigCmd"
    /\ nSched > 0 => firstSched = "loadConfigCmd"
    /\ (nRecv > 0 /\ lastRecv \in {"FILE_WAIT", "", "SERVER_STARTED"}) =>
          lastSched = "fileWaitForUpdateCmd"
    /\ (nRecv > 0 /\ lastRecv = "CONFIG_LOAD_OK") => lastSched = "startServerCmd"
    /\ (nRecv > 0 /\ lastRecv = "FILE_UPDATED") => lastSched = "loadConfigCmd"

\* the load command returned a message with no entry in the table and Run
\* scheduled the default command for it
C14_Witness ==
    /\ nRecv > 0
    /\ lastSender = "loadConfigCmd"
    /\ lastRecv = "FILE_WAIT"
    /\ lastSched = "fileWaitForUpdateCmd"
    /\ \E i \in 1..Len(tasks) : tasks[i].cmd = "fileWaitForUpdateCmd" /\ tasks[i].pc = "wait"

\* C15: the only things that end the controller are a server failure in
\* flight that is not a graceful shutdown, and the external cancellation.
C15_OnlyServerFailureOrCancelEnds ==
    /\ aborted # "none" => aborted = "fatal server error"
    /\ lpc = "returned" => runCtxDone

\* C16: after a failing load with no cancellation the controller has not
\* exited (but for a server failure in flight) and it is in the wait command;
\* after FILE_UPDATED it loads the configuration, after CONFIG_LOAD_OK it
\* starts the server, after SERVER_STARTED it waits again.
C16_RecoveryAfterFailedLoad ==
    /\ (nRecv > 0 /\ lastSender = "loadConfigCmd" /\ lastRecv # "CONFIG_LOAD_OK"
          /\ ~runCtxDone /\ aborted # "fatal server error") =>
          /\ aborted = "none"
          /\ lpc = "recv"
          /\ Len(tasks) = 1
          /\ tasks[1].cmd = "fileWaitForUpdateCmd"
    /\ (nRecv > 0 /\ lastRecv = "FILE_UPDATED") => lastSched = "loadConfigCmd"
    /\ (nRecv > 0 /\ lastRecv = "CONFIG_LOAD_OK") => lastSched = "startServerCmd"
    /\ (nRecv > 0 /\ lastRecv = "SERVER_STARTED") => lastSched = "fileWaitForUpdateCmd"

\* C17: a load that fails returns CONFIG_LOAD_FAILED and ends nothing; a load
\* that succeeds returns CONFIG_LOAD_OK with the configuration and the
\* template directory it read cached.
C17_LoadConfigMessages ==
    lastLoad # NoLoad =>
        IF lastLoad.read \in ValidConfigs
        THEN /\ lastLoad.msg = "CONFIG_LOAD_OK"
             /\ cfg = lastLoad.read
             /\ templateDir = lastLoad.read
        ELSE lastLoad.msg = "CONFIG_LOAD_FAILED"

\* the instances that are serving or about to serve
Live == { id \in 1..Len(servers) : servers[id] \in {"built", "serving"} }

\* C18: at most one instance is serving or about to serve, and it is the one
\* the handle srv names: every instance built before it has been shut down.
C18_AtMostOneServer ==
    /\ Cardinality(Live) <= 1
    /\ \A id \in Live : id = srv

\* a second instance is serving after the first was shut down
C18_Witness ==
    /\ Len(servers) >= 2
    /\ servers[1] = "closed"
    /\ servers[2] = "serving"
    /\ srv = 2

\* C19: once the cancellation has fired, Run returns and ServeInDevelopment
\* returns nil, unless a server failure in flight ends the process first.
C19_CancelReturnsNil ==
    runCtxDone ~> (devReturn = "nil" \/ aborted = "fatal server error")

\* ------------------------------------------------------------------------
\* Claims about the error of the watch
\* ------------------------------------------------------------------------

\* the errors that are not the cancellation status
FatalErrors == {"ErrorsClosed", "NotifyError", "EventsClosed", "NoMatcher"}

\* C20 as claimed: when the event reader ends with a fatal error the group's
\* context is cancelled, which stops the debounce task; the watch then returns
\* that fatal error; it returns the cancellation status only if no task ended
\* with a fatal error.
C20_FatalErrorAlwaysSurfaced ==
    /\ readerErr.err \in FatalErrors => gctxDone
    /\ waitDone => (rpc = "done" /\ tpc = "done")
    /\ waitDone =>
          IF readerErr.err \in FatalErrors
          THEN fcnErr = readerErr.err
          ELSE fcnErr = "Canceled"

\* C20: when the event reader ends with a fatal error the group's context is
\* cancelled, which stops the debounce task; the watch returns when both tasks
\* have returned, with the first error a task returned: the fatal error if the
\* reader returned it before the debounce task returned on cancellation, the
\* cancellation status otherwise; without a cancellation from outside the
\* watch returns a fatal error only.
C20_FirstErrorSurfaced ==
    /\ readerErr.err \in FatalErrors => gctxDone
    /\ waitDone => (rpc = "done" /\ tpc = "done")
    /\ waitDone =>
          IF readerErr.err \in FatalErrors /\ readerErr.first
          THEN fcnErr = readerErr.err
          ELSE fcnErr = "Canceled"
    /\ (waitDone /\ ~ctxDone) => fcnErr \in FatalErrors

\* the watch returned the reader's fatal error with no cancellation from
\* outside: the debounce task was stopped by the group's context
C20_Witness ==
    /\ waitDone
    /\ ~ctxDone
    /\ readerErr.err \in FatalErrors
    /\ fcnErr = readerErr.err
    /\ tpc = "done"

\* ------------------------------------------------------------------------
\* Claims about qualification, the suffixes and the coalescer
\* ------------------------------------------------------------------------

\* C21: the reader hands over exactly the raw events of the reference
\* predicate: a write, base name not beginning with ".", lower-cased base name
\* ending with the lower-cased form of a suffix configured for its directory,
\* a suffix without leading "." being read as if it had one.
C21_QualifiesAsReference ==
    /\ nHanded = nRefQual
    /\ rpc = "send" => QualifiesWithDottedSuffixes(cur)

\* C23: a qualifying raw event leads to one send on eventChan, however many
\* of the configured suffixes match: the ticker has received no more sends than
\* the reader has handed over events.
C23_OneSignalPerQualifyingEvent == nSignals <= nHanded

\* C24: after a successful construction every suffix in dirDescriptorMap
\* begins with ".".
C24_StoredSuffixesBeginWithDot ==
    fcnNewErr = "none" =>
        \A d \in DOMAIN dirDescriptorMap :
            \A k \in 1..Len(dirDescriptorMap[d]) :
                /\ dirDescriptorMap[d][k] # <<>>
                /\ Head(dirDescriptorMap[d][k]) = "."

\* ------------------------------------------------------------------------
\* Claims about the goroutines of the commands
\* ------------------------------------------------------------------------

UnregisteredIsFatal ==
    /\ rpc = "done"
    /\ readerErr.err = "NoMatcher"
    /\ gctxDone
    /\ gerr # "none"
    /\ waitDone => fcnErr # "none"

C26_EmitsOnlyWhenPending ==
    /\ [](/\ emitted <= nSignals
          /\ delivered <= emitted
          /\ tpc = "emit" => (flush /\ pendingN = 0))
    /\ [][ /\ emitted' # emitted =>
                 /\ tpc = "select" /\ tickAvail /\ ~tickAvail'
                 /\ flush
                 /\ pendingN >= 1 /\ pendingN' = 0
                 /\ emitted' = emitted + 1
                 /\ tpc' = "emit"
           /\ (flush /\ ~flush') => (tpc = "emit" /\ delivered' = delivered + 1)
           /\ (~flush /\ tickAvail /\ ~tickAvail') =>
                 (emitted' = emitted /\ delivered' = delivered /\ tpc' = tpc) ]_vars

\* one signal emitted and delivered for two sends, and the next tick, a whole
\* period later, was taken with nothing pending and emitted nothing
C26_Witness ==
    /\ nSignals >= 2
    /\ emitted = 1
    /\ delivered = 1
    /\ ~flush
    /\ tpc = "select"
    /\ sinceEmit = flushDuration
    /\ ~tickAvail
    /\ tickIn = flushDuration

C29_StartServerOutcomes ==
    [][ \A i \in 1..Len(tasks) :
          (tasks[i].cmd = "startServerCmd" /\ tasks[i].pc = "cmd" /\ tasks' # tasks) =>
              /\ aborted' = aborted
              /\ Len(tasks') = Len(tasks)
              /\ tasks'[i].cmd = "startServerCmd"
              /\ tasks'[i].pc = "select"
              /\ \/ /\ tasks'[i].msg = "SERVER_STARTED"
                    /\ srv' = Len(servers')
                    /\ Len(servers') = Len(servers) + 1
                    /\ servers'[srv'] = "built"
                    /\ servePending' = servePending + 1
                 \/ /\ tasks'[i].msg # "SERVER_STARTED"
                    /\ Update(tasks'[i].msg) = "fileWaitForUpdateCmd"
                    /\ srv' = 0
                    /\ Len(servers') = Len(servers)
                    /\ servePending' = servePending ]_vars

\* a first instance was built and SERVER_STARTED sent; at the next start the
\* instance was shut down and newServer failed: the loop has received FILE_WAIT
\* from startServerCmd and scheduled the wait, and the process goes on
C29_Witness ==
    /\ lastSender = "startServerCmd"
    /\ lastRecv = "FILE_WAIT"
    /\ lastSched = "fileWaitForUpdateCmd"
    /\ srv = 0
    /\ servers = << "closed" >>
    /\ aborted = "none"

C32_OneCommandInFlight ==
    /\ Len(tasks) <= 1
    /\ nSched <= nRecv + 1

\* two messages were received and the command scheduled for the second is at
\* the send of its result
C32_Witness ==
    /\ nRecv = 2
    /\ nSched = 3
    /\ Len(tasks) = 1
    /\ tasks[1].pc = "select"
    /\ aborted = "none"

\* C35: msgChan is closed at most once, however the cancellation (after which
\* a command's goroutine calls Stop) and a call of Stop from outside fall.
C35_ChannelClosedAtMostOnce == aborted # "close of closed channel"

\* C36: once the context is cancelled the loop receives no result and
\* schedules no command any more.
C36_NoCommandAfterCancel ==
    [][ (runCtxDone /\ lpc = "recv" /\ NoNilCmd) =>
            /\ << nRecv, lastRecv, lastSender >>' = << nRecv, lastRecv, lastSender >>
            /\ ~(tasks' # tasks /\ \E i \in 1..Len(tasks') : tasks'[i].pc = "cmd") ]_vars

\* ------------------------------------------------------------------------
\* Claims about the state shared by the commands of the controller
\* ------------------------------------------------------------------------

\* C37: a run of loadConfigCmd that fails changes neither cfg nor
\* templateDir nor srv, and the instances keep their state.
C37_FailedLoadChangesNothing ==
    [][ \A i \in 1..Len(tasks) :
          (/\ tasks[i].cmd = "loadConfigCmd"
           /\ tasks[i].pc = "cmd"
           /\ tasks' # tasks
           /\ tasks'[i].msg # "CONFIG_LOAD_OK") =>
              /\ tasks'[i].pc = "select"
              /\ UNCHANGED << cfg, templateDir, srv, servers, servePending, aborted >> ]_vars

\* a load has failed after a good one: the configuration of the good load is
\* still cached and the instance built from it is serving
C37_Witness ==
    /\ lastLoad.msg = "FILE_WAIT"
    /\ lastLoad.read \notin ValidConfigs
    /\ cfg \in ValidConfigs
    /\ templateDir = cfg
    /\ srv # 0
    /\ servers[srv] = "serving"
    /\ aborted = "none"

\* C33: a serve goroutine that has not yet called a.serveFunc finds in srv
\* the instance its own run of startServerCmd has built: it is the only one
\* pending, and srv is an instance that nothing serves yet.
C33_ServeTaskServesOwnInstance ==
    /\ aborted # "nil server"
    /\ servePending > 0 =>
          /\ servePending = 1
          /\ srv # 0
          /\ servers[srv] = "built"

\* C31: cfg and templateDir are written by loadConfigCmd only and read by a
\* command scheduled after the message of the write was received, one command
\* running at a time; and no goroutine reads srv while startServerCmd runs.
C31_SingleWriterOrderedReader ==
    /\ Len(tasks) <= 1
    /\ \A i \in 1..Len(tasks) :
          (tasks[i].cmd = "startServerCmd" /\ tasks[i].pc = "cmd") =>
              /\ lastRecv = "CONFIG_LOAD_OK"
              /\ cfg \in ValidConfigs
              /\ servePending = 0

\* C34: at most one notifier is live at any time, and when
\* fileWaitForUpdateCmd has returned its message the Watch of the notifier it
\* built has returned.
C34_AtMostOneLiveNotifier ==
    /\ liveNotifiers <= 1
    /\ \A i \in 1..Len(tasks) :
          (tasks[i].cmd = "fileWaitForUpdateCmd" /\ tasks[i].pc = "select") =>
              liveNotifiers = 0

====
